---- MODULE Spec2Model ----
(***************************************************************************)
(* Command queue, polling scheduler and restart logic of the car device   *)
(* (src/drivers/car/device.js).  One action per handler or per            *)
(* continuation of an async function between two awaits; enQueue and      *)
(* runQueue are operators on the device state because they call each      *)
(* other synchronously inside one turn of the event loop.                 *)
(***************************************************************************)
EXTENDS Integers, Sequences, FiniteSets, TLC

VARIABLES
  queue,            \* this.queue: slot index -> item or NoItem
  head,             \* this.head
  tail,             \* this.tail
  queueRunning,     \* this.queueRunning
  busy,             \* this.busy
  restarting,       \* this.restarting
  vehicle,          \* TRUE iff this.vehicle && this.vehicle.vehicleConfig
  watchDogCounter,  \* this.watchDogCounter
  lastCommand,      \* this.lastCommand
  pollMode,         \* this.pollMode (0 normal, 1 engineOn)
  timer,            \* this.intervalIdDevicePoll: "none" or the interval armed
  armed,            \* the interval timers of the host that are armed
  disabled,         \* this.disabled (host flag read by enQueue)
  settings,         \* this.settings (the two settings the queue reads)
  available,        \* device availability (setAvailable / setUnavailable)
  chains,           \* runQueue invocations suspended at an await
  inits,            \* onInit invocations awaiting client.login()
  restartTimers,    \* restartDevice invocations awaiting their delay
  order,            \* history: the occupied slots, in the order they were stored
  overtaken,        \* history: pending slots stored before a command that ran
  fifo,             \* history: FALSE once an overtaken command is executed
  firstInit,        \* history: the onInit of the first start still awaits login
  events,           \* history: environment events so far (see MaxEvents)
  log,              \* history: what the last step logged
  lastStatus,       \* this.lastStatus: the canonical record of the last poll
  status,           \* history: the payload the last poll received
  capability,       \* the capability values latitude and longitude
  parkLocation,     \* this.parkLocation
  handled           \* history: the record handleInfo saw last and what it found

vars == << queue, head, tail, queueRunning, busy, restarting, vehicle,
           watchDogCounter, lastCommand, pollMode, timer, armed, disabled,
           settings, available, chains, inits, restartTimers, order, overtaken, fifo,
           firstInit, events, log, lastStatus, status, capability,
           parkLocation, handled >>

\* ---------------------------------------------------------------- bounds
MaxEvents == 6        \* weight of the environment events over a run of Spec
QMaxEvents == 12      \* user commands over a run of QSpec
LMaxEvents == 6       \* weight of the environment events over a run of LSpec
MaxChains == 2        \* runQueue invocations suspended at the same time
MaxInits == 2         \* onInit invocations awaiting login at the same time
MaxOdo == 2           \* odometer readings 0 .. MaxOdo
NDoors == 2           \* doors of the car
MaxPlugin == 4        \* connector codes 0 .. MaxPlugin
MaxCoord == 4         \* latitudes and longitudes 0 .. MaxCoord, in 0.0001 degree
MaxSpeed == 1         \* speeds -1 .. MaxSpeed

\* ------------------------------------------------------ program constants
QueueCap == 10        \* enQueue: if (this.tail >= 10)
WatchDogStart == 6    \* this.watchDogCounter = 6
NoSessionPenalty == 2 \* this.watchDogCounter -= 2
MovingDelta == 1      \* isMoving: > 0.0001, in units of 0.0001 degree
ParkingDelta == 3     \* isParking: > 0.0003, in units of 0.0001 degree

Slots == 0 .. (QueueCap - 1)

Item(c, f, l) == [command |-> c, forceOnce |-> f, logPoll |-> l]

\* what reading an empty slot yields
NoItem == Item("undefined", FALSE, FALSE)

\* itemWait of runQueue, with the || 5 default
ItemWait(c) ==
  CASE c = "doPoll" -> 5
    [] c = "start" -> 65
    [] c = "stop" -> 5
    [] c = "lock" -> 5
    [] c = "unlock" -> 5
    [] c = "setChargeTargets" -> 25
    [] c = "startCharge" -> 25
    [] c = "stopCharge" -> 5
    [] c = "setNavigation" -> 65
    [] OTHER -> 5

\* the device state as one record, so that handlers compose
St ==
  [queue |-> queue, head |-> head, tail |-> tail, queueRunning |-> queueRunning,
   busy |-> busy, restarting |-> restarting, vehicle |-> vehicle,
   watchDogCounter |-> watchDogCounter, lastCommand |-> lastCommand,
   pollMode |-> pollMode, timer |-> timer, armed |-> armed,
   disabled |-> disabled,
   settings |-> settings, available |-> available, chains |-> chains,
   inits |-> inits, restartTimers |-> restartTimers, order |-> order,
   overtaken |-> overtaken, fifo |-> fifo, firstInit |-> firstInit,
   events |-> events, log |-> log]

\* the state a handler starts from: nothing logged yet in this step
Begin == [St EXCEPT !.log = {}]

Logged(s, m) == [s EXCEPT !.log = @ \cup {m}]

Size(s) == s.tail - s.head

\* the pending commands, oldest first
Pending(s) == [i \in 1 .. Size(s) |-> s.queue[s.head + i - 1]]

\* ------------------------------------------------------------ setupQueue
RECURSIVE RunQueue(_)
RECURSIVE EnQueue(_, _)

\* mutant of EnQueueRefused: the capacity test is off by one
EnQueueRefusedLate(s) ==
  IF s.disabled THEN "disabled"
  ELSE IF s.tail > QueueCap THEN "overflow"
  ELSE "no"

\* enQueue, lines 117-124: the two early returns
EnQueueRefused(s) ==
  IF s.disabled THEN "disabled"
  ELSE IF s.tail >= QueueCap THEN "overflow"
  ELSE "no"

\* enQueue, lines 125-126: store the item at the tail
EnQueueStore(s, item) ==
  IF EnQueueRefused(s) = "disabled" THEN Logged(s, "ignoring command")
  ELSE IF EnQueueRefused(s) = "overflow" THEN Logged(s, "queue overflow")
  ELSE [s EXCEPT !.queue[s.tail] = item,
                 !.tail = s.tail + 1,
                 !.order = Append(@, s.tail)]

\* enQueue: store, then start the loop unless it is marked running
EnQueue(s, item) ==
  IF EnQueueRefused(s) # "no" THEN EnQueueStore(s, item)
  ELSE LET t == EnQueueStore(s, item)
       IN  IF ~t.queueRunning
           THEN RunQueue([t EXCEPT !.queueRunning = TRUE])
           ELSE t

\* history: a sequence without the slot x; the slots stored before x
Without(seq, x) == SelectSeq(seq, LAMBDA y : y # x)

Before(seq, x) ==
  {seq[k] : k \in {j \in 1 .. Len(seq) : \A m \in 1 .. j : seq[m] # x}}

\* history: the command of slot x starts to execute in state s; pre is the
\* state before it was dequeued
Started(pre, s, x) ==
  [s EXCEPT !.overtaken = (@ \cup Before(pre.order, x)) \ {x},
            !.fifo = @ /\ x \notin pre.overtaken]

\* history: the command of slot x is dropped without being executed
Dropped(s, x) == [s EXCEPT !.overtaken = @ \ {x}]

\* mutant of DeQueue: the indices are not rewound when the queue drains
DeQueueNoRewind(s) ==
  IF Size(s) <= 0 THEN [item |-> NoItem, slot |-> s.head, s |-> s]
  ELSE [item |-> IF s.head \in Slots THEN s.queue[s.head] ELSE NoItem,
        slot |-> s.head,
        s |-> [s EXCEPT !.order = Without(@, s.head),
                        !.queue = [s.queue EXCEPT ![s.head] = NoItem],
                        !.head = s.head + 1]]

\* mutant of DeQueue: the newest command is taken instead of the oldest
DeQueueNewest(s) ==
  IF Size(s) <= 0 THEN [item |-> NoItem, slot |-> s.head, s |-> s]
  ELSE LET l == s.tail - 1
           q == [s.queue EXCEPT ![l] = NoItem]
           t == [s EXCEPT !.order = Without(@, l)]
       IN  [item |-> IF l \in Slots THEN s.queue[l] ELSE NoItem,
            slot |-> l,
            s |-> IF s.head = l
                  THEN [t EXCEPT !.queue = q, !.head = 0, !.tail = 0]
                  ELSE [t EXCEPT !.queue = q, !.tail = l]]

\* deQueue: the item at the head (undefined when nothing is pending) and the
\* state it leaves
DeQueue(s) ==
  IF Size(s) <= 0 THEN [item |-> NoItem, slot |-> s.head, s |-> s]
  ELSE LET h == s.head + 1
           q == [s.queue EXCEPT ![s.head] = NoItem]
           t == [s EXCEPT !.order = Without(@, s.head)]
       IN  [item |-> IF s.head \in Slots THEN s.queue[s.head] ELSE NoItem,
            slot |-> s.head,
            s |-> IF h = s.tail
                  THEN [t EXCEPT !.queue = q, !.head = 0, !.tail = 0]
                  ELSE [t EXCEPT !.queue = q, !.head = h]]

\* flushQueue
FlushQueue(s) ==
  Logged([s EXCEPT !.queue = [i \in Slots |-> NoItem], !.head = 0, !.tail = 0,
                   !.queueRunning = FALSE, !.order = << >>, !.overtaken = {}],
         "Queue is flushed")

\* mutant of NoSession: the catch does not reset the busy flag
NoSessionStaysBusy(s) ==
  Logged([s EXCEPT !.watchDogCounter = @ - NoSessionPenalty,
                   !.queueRunning = FALSE],
         "not logged in")

\* mutant of NoSession: the penalty of an ordinary failure is applied
NoSessionOnce(s) ==
  Logged([s EXCEPT !.watchDogCounter = @ - 1,
                   !.queueRunning = FALSE, !.busy = FALSE],
         "not logged in")

\* runQueue, lines 159-162 and the catch of lines 219-223: no session
NoSession(s) ==
  Logged([s EXCEPT !.watchDogCounter = @ - NoSessionPenalty,
                   !.queueRunning = FALSE, !.busy = FALSE],
         "not logged in")

\* runQueue, lines 174-180: the command is invoked and the loop awaits it
Invoke(s, item) ==
  Logged([s EXCEPT !.lastCommand = item.command,
                   !.chains = Append(@, [pc |-> "exec", item |-> item])],
         "invoke")

\* mutant of QueueEmpty: the poll is enqueued whatever the last command was
QueueEmptyAlways(s) ==
  EnQueue(Logged([s EXCEPT !.queueRunning = FALSE, !.busy = FALSE],
                 "Finished queue"),
          Item("doPoll", TRUE, FALSE))

\* runQueue, lines 209-218: nothing pending
QueueEmpty(s) ==
  LET t == Logged([s EXCEPT !.queueRunning = FALSE, !.busy = FALSE],
                  "Finished queue")
      \* this.fixChargerStateTime is never assigned: Date.now() - undefined is
      \* NaN and NaN < 30000 is false
      fixingChargerState == (t.lastCommand = "stopCharge") \/ FALSE
  IN  IF t.lastCommand # "doPoll" /\ ~fixingChargerState
      THEN EnQueue(t, Item("doPoll", TRUE, FALSE))
      ELSE t

\* runQueue up to its first await
RunQueue(s) ==
  LET d == DeQueue([s EXCEPT !.busy = TRUE, !.queueRunning = TRUE])
  IN  IF d.item # NoItem
      THEN IF ~d.s.vehicle
           THEN NoSession(Dropped(d.s, d.slot))
           ELSE Invoke(Started(s, d.s, d.slot), d.item)
      ELSE QueueEmpty(d.s)

\* --------------------------------------------------- scheduler, lifecycle
\* homey.clearInterval(this.intervalIdDevicePoll): the timer the handle names
\* is cancelled; a handle that is undefined or names a cancelled timer
\* cancels nothing
ClearInterval(s) ==
  IF s.timer # "none" THEN [s EXCEPT !.timer = "none", !.armed = @ - 1] ELSE s

\* stopPolling
StopPolling(s) == ClearInterval(s)

\* restartDevice up to its await of the delay
RestartDevice(s) ==
  IF s.restarting THEN s
  ELSE LET t == FlushQueue(StopPolling([s EXCEPT !.restarting = TRUE]))
       IN  [t EXCEPT !.available = FALSE, !.restartTimers = @ + 1]

\* mutant of StartPolling: the first poll is a forced one
StartPollingForced(s, interval) ==
  EnQueue(Logged([ClearInterval(s) EXCEPT !.timer = interval, !.armed = @ + 1],
                 "Start polling"),
          Item("doPoll", TRUE, TRUE))

\* mutant of StartPolling: the previous timer is not cancelled
StartPollingNoClear(s, interval) ==
  EnQueue(Logged([s EXCEPT !.timer = interval, !.armed = @ + 1],
                 "Start polling"),
          Item("doPoll", FALSE, TRUE))

\* startPolling(interval): cancel the previous timer, arm a new one, then the
\* first poll
StartPolling(s, interval) ==
  EnQueue(Logged([ClearInterval(s) EXCEPT !.timer = interval, !.armed = @ + 1],
                 "Start polling"),
          Item("doPoll", FALSE, TRUE))

\* mutant of TimerTick: a skipped poll costs nothing
TimerTickNoPenalty(s) ==
  IF s.watchDogCounter <= 0
  THEN RestartDevice(Logged(s, "watchdog triggered"))
  ELSE IF s.busy
  THEN Logged(s, "skipping a poll")
  ELSE EnQueue(s, Item("doPoll", FALSE, FALSE))

\* the callback of setInterval in startPolling
TimerTick(s) ==
  IF s.watchDogCounter <= 0
  THEN RestartDevice(Logged(s, "watchdog triggered"))
  ELSE IF s.busy
  THEN Logged([s EXCEPT !.watchDogCounter = @ - 1], "skipping a poll")
  ELSE EnQueue(s, Item("doPoll", FALSE, FALSE))

Settings == [loginOnRetry : BOOLEAN]

\* initvalues, with the settings the host holds at that moment
InitValues(s, cfg) ==
  [s EXCEPT !.settings = cfg, !.vehicle = FALSE, !.pollMode = 0,
            !.watchDogCounter = WatchDogStart, !.busy = FALSE,
            !.restarting = FALSE]

\* setupQueue: the queue properties
SetupQueue(s) ==
  [s EXCEPT !.queue = [i \in Slots |-> NoItem], !.head = 0, !.tail = 0,
            !.queueRunning = FALSE, !.order = << >>, !.overtaken = {}]

\* onInit up to the await of client.login() in setupClient
OnInitStart(s, cfg) ==
  LET t == SetupQueue(InitValues(s, cfg))
  IN  [t EXCEPT !.inits = @ + 1]

\* onInit after client.login(): the ready handler, then startPolling; a failed
\* login lands in the catch of onInit
OnInitLogin(s, ok) ==
  LET t == [s EXCEPT !.inits = @ - 1]
  IN  IF ok
      THEN StartPolling([t EXCEPT !.vehicle = TRUE], "pollInterval")
      ELSE RestartDevice(Logged(t, "login failed"))

\* the client's error handler
ClientError(s, code) ==
  LET a == IF code = "5091"
           THEN RestartDevice([StopPolling(Logged(s, "Daily quotum reached"))
                                 EXCEPT !.available = FALSE])
           ELSE s
      b == IF code = "4004"
           THEN [a EXCEPT !.watchDogCounter = @ - 1]
           ELSE a
      c == [b EXCEPT !.watchDogCounter = @ - 1]
  IN  IF ~c.vehicle THEN RestartDevice(c) ELSE c

\* ----------------------------------------- runQueue after its first await
SetChain(s, i, pc) == [s EXCEPT !.chains[i].pc = pc]

DropChain(s, i) ==
  [s EXCEPT !.chains = [k \in 1 .. (Len(@) - 1) |-> IF k < i THEN @[k] ELSE @[k + 1]]]

\* history: what the poll observed (carJustActive, line 449) and, when the
\* car was just active, whether settings.pollIntervalEngineOn is set
Observed(s, carJustActive, engineOnSet) ==
  IF ~carJustActive THEN Logged(s, "car not active")
  ELSE Logged(Logged(s, "car just active"),
              IF engineOnSet THEN "engineOn interval set"
              ELSE "no engineOn interval")

\* mutant of DoPollMode: the mode never returns to normal
DoPollModeSticky(s, carJustActive, engineOnSet) ==
  LET t == Observed(s, carJustActive, engineOnSet)
  IN  IF engineOnSet /\ t.pollMode = 0 /\ carJustActive
      THEN StartPolling([t EXCEPT !.pollMode = 1], "pollIntervalEngineOn")
      ELSE t

\* doPoll, lines 463-470: the poll mode follows carJustActive
DoPollMode(s, carJustActive, engineOnSet) ==
  LET t == Observed(s, carJustActive, engineOnSet)
  IN  IF engineOnSet /\ t.pollMode = 0 /\ carJustActive
      THEN StartPolling([t EXCEPT !.pollMode = 1], "pollIntervalEngineOn")
      ELSE IF t.pollMode # 0 /\ ~carJustActive
      THEN StartPolling([t EXCEPT !.pollMode = 0], "pollInterval")
      ELSE t

\* what a resolved command leaves before runQueue's .then runs: only doPoll
\* runs code of the device
Resolved(s, item, carJustActive, engineOnSet) ==
  IF item.command = "doPoll" THEN DoPollMode(s, carJustActive, engineOnSet) ELSE s

\* mutant of OnSuccess: the counter is credited instead of reset
OnSuccessCredit(s) ==
  Logged([s EXCEPT !.watchDogCounter = IF @ < WatchDogStart THEN @ + 1 ELSE @,
                   !.available = TRUE],
         IF s.watchDogCounter <= 0 THEN "ok, counter was exhausted" ELSE "ok")

\* runQueue, lines 181-184 and 194-198: the .then of a resolved command
OnSuccess(s) ==
  Logged([s EXCEPT !.watchDogCounter = WatchDogStart, !.available = TRUE],
         IF s.watchDogCounter <= 0 THEN "ok, counter was exhausted" ELSE "ok")

\* mutant of OnFailure: the penalty of the absent session is applied
OnFailureTwice(s) ==
  Logged([s EXCEPT !.watchDogCounter = @ - NoSessionPenalty], "failed")

\* runQueue, lines 201-204: if (!retryWorked)
OnFailure(s) ==
  Logged([s EXCEPT !.watchDogCounter = @ - 1], "failed")

\* mutant of ClearBusy: the failure handler leaves the busy flag alone
KeepBusy(s) == s

\* runQueue, line 205
ClearBusy(s) == [s EXCEPT !.busy = FALSE]

\* runQueue, line 189: is the error one of the two retry codes
IsRetryCode(code) == code \in {"4002", "4004"}

\* the first invocation settles: code "ok" or the resCode of the error
FirstAttempt(s, i, code, carJustActive, engineOnSet) ==
  IF code = "ok"
  THEN SetChain(OnSuccess(Resolved(s, s.chains[i].item, carJustActive, engineOnSet)),
                i, "wait")
  ELSE IF IsRetryCode(code)
  THEN SetChain(Logged(s, "Retrying in 60 seconds"), i, "backoff")
  ELSE SetChain(ClearBusy(OnFailure(s)), i, "wait")

\* runQueue, line 193: the second invocation.  doPoll dereferences
\* this.vehicle before its first await, so without a vehicle it rejects in
\* the same turn; the other commands run on the vehicle object captured at
\* line 175
ReInvoke(s, i) ==
  IF s.chains[i].item.command = "doPoll" /\ ~s.vehicle
  THEN SetChain(ClearBusy(OnFailure(Logged(s, "reinvoke"))), i, "wait")
  ELSE SetChain(Logged(s, "reinvoke"), i, "retry")

\* runQueue, lines 191-192: the 60 s are over
BackoffOver(s, i) ==
  IF s.settings.loginOnRetry THEN SetChain(s, i, "login") ELSE ReInvoke(s, i)

\* runQueue, line 192: client.login() settles; a rejection leaves the .catch
\* handler and lands in the catch of lines 219-223
RetryLogin(s, i, ok) ==
  IF ok
  THEN ReInvoke([s EXCEPT !.vehicle = TRUE], i)
  ELSE DropChain(Logged([s EXCEPT !.queueRunning = FALSE, !.busy = FALSE],
                        "retry login failed"), i)

\* runQueue, lines 193-205: the second invocation settles
SecondAttempt(s, i, ok, carJustActive, engineOnSet) ==
  IF ok
  THEN SetChain(ClearBusy(OnSuccess(Resolved(Logged(s, "retried"), s.chains[i].item,
                                             carJustActive, engineOnSet))),
                i, "wait")
  ELSE SetChain(ClearBusy(OnFailure(Logged(s, "retried"))), i, "wait")

\* runQueue, lines 207-208: the post-wait is over, the loop calls itself
WaitOver(s, i) == RunQueue(DropChain(s, i))

\* ------------------------------------------------- doPoll and mapStatus
\* JavaScript values of the odometer field
Num(n) == [t |-> "number", v |-> n]

Undefined == [t |-> "undefined", v |-> 0]

EmptyObject == [t |-> "object", v |-> 0]

\* !x
Falsy(x) == x.t = "undefined" \/ (x.t = "number" /\ x.v = 0)

\* { ...x }: the own enumerable properties of x; a number or undefined has none
Spread(x) == IF x.t = "object" THEN x ELSE EmptyObject

OdoValues == {Undefined} \cup {Num(n) : n \in 0 .. MaxOdo}

Doors == 1 .. NDoors

\* The payloads of vehicle.fullStatus / vehicle.status, by schema: "legacyFull"
\* has vehicleStatus (with time), "legacySimple" has time only, "current" has
\* Date.  doorOpen[d] is doorOpen[d] resp. Door.Open (1 open, 0 closed);
\* locked is doorLock resp. Lock = 0 on every door; the Open fields of
\* trunk, hood, windows and sunroof are 1 or 0.
Schemas == {"legacyFull", "legacySimple", "current"}

Payload(sc, odo, lk, dr, tr, hd, wn, sr, pl, ch) ==
  [schema |-> sc, odometer |-> odo, locked |-> lk, doorOpen |-> dr,
   trunkOpen |-> tr, hoodOpen |-> hd, windowOpen |-> wn, sunroofOpen |-> sr,
   plugin |-> pl, charge |-> ch]

AllClosed == [d \in Doors |-> 0]

NoPayload ==
  Payload("none", Undefined, FALSE, AllClosed, 0, 0, 0, 0, 0, FALSE)

\* the canonical record before any poll (getStoreValue('lastStatus') is null)
NoStatus ==
  [measure_odo |-> Undefined, locked |-> FALSE, closed_locked |-> FALSE,
   ev_charging_state |-> "undefined"]

\* mutant of LegacyChargingState: the connector code is not recoded
LegacyChargingStateRaw(batteryPlugin, batteryCharge) ==
  IF batteryPlugin = 1 \/ batteryPlugin = 2 THEN "plugged_in_charging"
  ELSE IF batteryPlugin = 3 \/ batteryPlugin = 4 THEN "plugged_in"
  ELSE "plugged_out"

\* mapStatus, lines 549-559: the charging phase in the legacy schemas, from
\* evStatus.batteryPlugin and evStatus.batteryCharge
LegacyChargingState(batteryPlugin, batteryCharge) ==
  LET charger == IF batteryPlugin # 0 /\ ~batteryCharge
                 THEN batteryPlugin + 2 ELSE batteryPlugin
  IN  IF charger = 1 \/ charger = 2 THEN "plugged_in_charging"
      ELSE IF charger = 3 \/ charger = 4 THEN "plugged_in"
      ELSE "plugged_out"

\* mapStatus, lines 598-608: the charging phase in the current schema, from
\* ConnectorFastening.State and charge = !!Charging.RemainTime
CurrentChargingState(state, charge) ==
  LET charger == IF state # 0 /\ ~charge THEN state + 2 ELSE state
  IN  IF charger = 1 \/ charger = 2 THEN "plugged_in_charging"
      ELSE IF charger = 3 \/ charger = 4 THEN "plugged_in"
      ELSE "plugged_out"

\* the reduce of line 565: closedAccu || !doorOpen[door], starting from true
RECURSIVE DoorsReduce(_, _, _)
DoorsReduce(doorOpen, d, closedAccu) ==
  IF d > NDoors THEN closedAccu
  ELSE DoorsReduce(doorOpen, d + 1, closedAccu \/ doorOpen[d] = 0)

\* mapStatus, line 565: closed_locked of the legacy schemas
LegacyClosedLocked(raw) ==
  /\ raw.locked /\ raw.trunkOpen = 0 /\ raw.hoodOpen = 0
  /\ DoorsReduce(raw.doorOpen, 1, TRUE)

\* mapStatus, lines 617-639: closed_locked of the current schema
CurrentClosedLocked(raw) ==
  /\ \A d \in Doors : raw.doorOpen[d] = 0
  /\ raw.locked
  /\ raw.windowOpen = 0
  /\ raw.trunkOpen = 0 /\ raw.hoodOpen = 0 /\ raw.sunroofOpen = 0

\* mapStatus: the fields of the canonical record the claims are about
MapStatus(raw) ==
  [measure_odo |-> IF raw.schema \in {"legacyFull", "current"}
                   THEN raw.odometer ELSE Undefined,
   locked |-> raw.locked,
   closed_locked |-> IF raw.schema = "current" THEN CurrentClosedLocked(raw)
                     ELSE LegacyClosedLocked(raw),
   ev_charging_state |-> IF raw.schema = "current"
                         THEN CurrentChargingState(raw.plugin, raw.charge)
                         ELSE LegacyChargingState(raw.plugin, raw.charge)]

\* mutant of RepairOdometer: a falsy odometer is kept
RepairOdometerNever(stsMapped, last) == stsMapped

\* doPoll, lines 435-436: repair odometer status 0
RepairOdometer(stsMapped, last) ==
  IF Falsy(stsMapped.measure_odo)
  THEN [stsMapped EXCEPT !.measure_odo = Spread(last.measure_odo)]
  ELSE stsMapped

\* doPoll, lines 428-438: the record a poll stores
PollRecord(raw, last) == RepairOdometer(MapStatus(raw), last)

\* the payloads: one family per group of fields, the others at rest
OdoPayloads ==
  {Payload(sc, odo, TRUE, AllClosed, 0, 0, 0, 0, 0, FALSE) :
     sc \in Schemas, odo \in OdoValues}

DoorPayloads ==
  {Payload(sc, Num(1), lk, dr, tr, hd, wn, sr, 0, FALSE) :
     sc \in Schemas, lk \in BOOLEAN, dr \in [Doors -> {0, 1}],
     tr \in {0, 1}, hd \in {0, 1}, wn \in {0, 1}, sr \in {0, 1}}

ChargePayloads ==
  {Payload(sc, Num(1), TRUE, AllClosed, 0, 0, 0, 0, pl, ch) :
     sc \in Schemas, pl \in 0 .. MaxPlugin, ch \in BOOLEAN}

\* ---------------------------------------- handleInfo, isMoving, isParking
\* Coordinates are counted in units of 0.0001 degree and compared as reals.
Location(lat, lon) == [latitude |-> lat, longitude |-> lon]

\* no location: getCapabilityValue gives null before the first poll
NoLocation == Location(Undefined, Undefined)

\* the positions a record reports: those along the two axes through the
\* origin and through (1, 1), so that either coordinate moves alone
Locations ==
  {NoLocation}
    \cup {Location(Num(p[1]), Num(p[2])) :
            p \in {q \in (0 .. MaxCoord) \X (0 .. MaxCoord) :
                     q[1] <= 1 \/ q[2] <= 1}}

SpeedValues == {Undefined} \cup {Num(n) : n \in (0 - 1) .. MaxSpeed}

Info(loc, speed, engine) ==
  [latitude |-> loc.latitude, longitude |-> loc.longitude,
   measure_speed |-> speed, engine |-> engine]

NoInfo == Info(NoLocation, Undefined, FALSE)

\* the canonical records handleInfo is called with
Infos ==
  {Info(loc, speed, engine) :
     loc \in Locations, speed \in SpeedValues, engine \in BOOLEAN}

\* Math.abs(a - b) > delta; with a or b absent the difference is NaN and the
\* comparison is false
Displaced(a, b, delta) ==
  /\ a.t = "number" /\ b.t = "number"
  /\ (IF a.v >= b.v THEN a.v - b.v ELSE b.v - a.v) > delta

\* mutant of IsMoving: the previous latitude is not tested
IsMovingAnyPrevious(info, previousLocation) ==
  IF Falsy(info.measure_speed) THEN FALSE
  ELSE \/ info.measure_speed.v > 0
       \/ Displaced(info.latitude, previousLocation.latitude, MovingDelta)
       \/ Displaced(info.longitude, previousLocation.longitude, MovingDelta)

\* mutant of IsMoving: the speed alone decides
IsMovingBySpeed(info, previousLocation) ==
  ~Falsy(info.measure_speed) /\ info.measure_speed.v > 0

\* isMoving, lines 655-663
IsMoving(info, previousLocation) ==
  IF Falsy(info.measure_speed) \/ Falsy(previousLocation.latitude) THEN FALSE
  ELSE \/ info.measure_speed.v > 0
       \/ Displaced(info.latitude, previousLocation.latitude, MovingDelta)
       \/ Displaced(info.longitude, previousLocation.longitude, MovingDelta)

\* mutant of IsParking: the threshold of isMoving is used
IsParkingNear(info, park) ==
  IF info.engine THEN FALSE
  ELSE \/ Displaced(info.latitude, park.latitude, MovingDelta)
       \/ Displaced(info.longitude, park.longitude, MovingDelta)

\* isParking, lines 665-673
IsParking(info, park) ==
  IF info.engine THEN FALSE
  ELSE \/ Displaced(info.latitude, park.latitude, ParkingDelta)
       \/ Displaced(info.longitude, park.longitude, ParkingDelta)

\* setCapability, lines 341-343: an undefined value is not set
SetCapability(old, val) == IF val.t = "undefined" THEN old ELSE val

\* ----------------------------------------------------------------- steps
\* s is the state the handler leaves; cost counts the step as an environment
\* event or not
Commit(s, cost, cap) ==
  /\ events + cost <= cap
  /\ Len(s.chains) <= MaxChains
  /\ s.inits <= MaxInits
  /\ queue' = s.queue /\ head' = s.head /\ tail' = s.tail
  /\ queueRunning' = s.queueRunning /\ busy' = s.busy
  /\ restarting' = s.restarting /\ vehicle' = s.vehicle
  /\ watchDogCounter' = s.watchDogCounter /\ lastCommand' = s.lastCommand
  /\ pollMode' = s.pollMode /\ timer' = s.timer /\ armed' = s.armed
  /\ disabled' = s.disabled
  /\ settings' = s.settings /\ available' = s.available /\ chains' = s.chains
  /\ inits' = s.inits /\ restartTimers' = s.restartTimers
  /\ order' = s.order /\ overtaken' = s.overtaken /\ fifo' = s.fifo
  /\ firstInit' = s.firstInit
  /\ log' = s.log
  /\ events' = events + cost
  /\ UNCHANGED << lastStatus, status, capability, parkLocation, handled >>

\* The weight of an environment event: a user command, a changed setting, a
\* client error and a call that settles with an error count twice; a timer
\* tick that finds the counter positive and a change of the car's activity
\* count once; everything else is free.
Weight(kind) == IF kind = "rare" THEN 2 ELSE 1

\* a call that settles with an error counts as an environment event
Cost(ok) == IF ok THEN 0 ELSE Weight("rare")

\* a poll of chain i that resolves and finds the car's activity changed
Switch(i, ok, cja, eng) ==
  IF ok /\ chains[i].item.command = "doPoll"
        /\ DoPollMode(Begin, cja, eng).pollMode # pollMode
  THEN Weight("periodic") ELSE 0

\* the commands a user or a flow submits: lock(true), chargingOnOff(false),
\* refreshStatus(true)
UserItems ==
  {Item("lock", FALSE, FALSE), Item("stopCharge", FALSE, FALSE),
   Item("doPoll", TRUE, FALSE)}

\* how a vehicle call settles: resolved, or rejected with this resCode
Codes == {"ok", "4004", "other"}

\* the first onInit has run up to the await of client.login()
Init ==
  /\ queue = [i \in Slots |-> NoItem] /\ head = 0 /\ tail = 0
  /\ queueRunning = FALSE /\ busy = FALSE /\ restarting = FALSE
  /\ vehicle = FALSE /\ watchDogCounter = WatchDogStart
  /\ lastCommand = "undefined" /\ pollMode = 0 /\ timer = "none" /\ armed = 0
  /\ disabled \in BOOLEAN /\ settings \in Settings /\ available = TRUE
  /\ chains = << >> /\ inits = 1 /\ restartTimers = 0
  /\ order = << >> /\ overtaken = {} /\ fifo = TRUE /\ firstInit = TRUE
  /\ events = 0 /\ log = {}
  /\ lastStatus = NoStatus /\ status = NoPayload
  /\ capability = NoLocation /\ parkLocation = Location(Num(0), Num(0))
  /\ handled = [info |-> NoInfo, self |-> FALSE, moving |-> FALSE,
                hasParked |-> FALSE]

UserCommand ==
  \E item \in UserItems : Commit(EnQueue(Begin, item), Weight("rare"), MaxEvents)

Tick ==
  /\ timer # "none"
  /\ Commit(TimerTick(Begin),
            IF watchDogCounter > 0 THEN Weight("periodic") ELSE 0, MaxEvents)

ExecDone ==
  \E i \in DOMAIN chains, code \in Codes, cja \in BOOLEAN, eng \in BOOLEAN :
    /\ chains[i].pc = "exec"
    /\ Commit(FirstAttempt(Begin, i, code, cja, eng),
              Cost(code = "ok") + Switch(i, code = "ok", cja, eng), MaxEvents)

BackoffDone ==
  \E i \in DOMAIN chains :
    /\ chains[i].pc = "backoff"
    /\ Commit(BackoffOver(Begin, i), 0, MaxEvents)

RetryLoginDone ==
  \E i \in DOMAIN chains, ok \in BOOLEAN :
    /\ chains[i].pc = "login"
    /\ Commit(RetryLogin(Begin, i, ok), Cost(ok), MaxEvents)

RetryDone ==
  \E i \in DOMAIN chains, ok \in BOOLEAN, cja \in BOOLEAN, eng \in BOOLEAN :
    /\ chains[i].pc = "retry"
    /\ Commit(SecondAttempt(Begin, i, ok, cja, eng),
              Cost(ok) + Switch(i, ok, cja, eng), MaxEvents)

WaitDone ==
  \E i \in DOMAIN chains :
    /\ chains[i].pc = "wait"
    /\ Commit(WaitOver(Begin, i), 0, MaxEvents)

\* the onInit invocations started by restartDevice that await login
ReInits(s) == s.inits - (IF s.firstInit THEN 1 ELSE 0)

LoginDone ==
  \E ok \in BOOLEAN, first \in BOOLEAN :
    /\ IF first THEN firstInit ELSE ReInits(St) > 0
    /\ Commit(OnInitLogin([Begin EXCEPT !.firstInit = @ /\ ~first], ok),
              Cost(ok), MaxEvents)

RestartElapsed ==
  \E cfg \in Settings :
    /\ restartTimers > 0
    /\ Commit(OnInitStart([Begin EXCEPT !.restartTimers = @ - 1], cfg), 0, MaxEvents)

OnSettings == Commit(RestartDevice(Begin), Weight("rare"), MaxEvents)

ClientErrorEvent ==
  \E code \in {"5091", "4004", "other"} :
    Commit(ClientError(Begin, code), Weight("rare"), MaxEvents)

Next ==
  \/ UserCommand \/ Tick \/ ExecDone \/ BackoffDone \/ RetryLoginDone
  \/ RetryDone \/ WaitDone \/ LoginDone \/ RestartElapsed \/ OnSettings
  \/ ClientErrorEvent

Spec == Init /\ [][Next]_vars

\* ------------------------------------------------- the loop left alone
\* The device after its first login with no timer tick, no changed setting
\* and no client error: users submit a bounded number of commands, every call
\* settles (resolved or rejected) and every timeout ends.
LUserCommand ==
  \E item \in UserItems : Commit(EnQueue(Begin, item), Weight("rare"), LMaxEvents)

LLoginDone ==
  /\ firstInit
  /\ Commit(OnInitLogin([Begin EXCEPT !.firstInit = FALSE], TRUE), 0, LMaxEvents)

LExecDone ==
  \E i \in DOMAIN chains, code \in Codes, cja \in BOOLEAN, eng \in BOOLEAN :
    /\ chains[i].pc = "exec"
    /\ Commit(FirstAttempt(Begin, i, code, cja, eng),
              Cost(code = "ok") + Switch(i, code = "ok", cja, eng), LMaxEvents)

LBackoffDone ==
  \E i \in DOMAIN chains :
    /\ chains[i].pc = "backoff"
    /\ Commit(BackoffOver(Begin, i), 0, LMaxEvents)

LRetryLoginDone ==
  \E i \in DOMAIN chains, ok \in BOOLEAN :
    /\ chains[i].pc = "login"
    /\ Commit(RetryLogin(Begin, i, ok), Cost(ok), LMaxEvents)

LRetryDone ==
  \E i \in DOMAIN chains, ok \in BOOLEAN, cja \in BOOLEAN, eng \in BOOLEAN :
    /\ chains[i].pc = "retry"
    /\ Commit(SecondAttempt(Begin, i, ok, cja, eng),
              Cost(ok) + Switch(i, ok, cja, eng), LMaxEvents)

LWaitDone ==
  \E i \in DOMAIN chains :
    /\ chains[i].pc = "wait"
    /\ Commit(WaitOver(Begin, i), 0, LMaxEvents)

\* a suspended runQueue invocation goes on: the call it awaits settles, or
\* the timeout it awaits is over
LoopStep ==
  LExecDone \/ LBackoffDone \/ LRetryLoginDone \/ LRetryDone \/ LWaitDone

LNext == LUserCommand \/ LLoginDone \/ LoopStep

\* no runQueue invocation stays suspended for ever
LSpec == Init /\ [][LNext]_vars /\ WF_vars(LoopStep)

\* ------------------------------------------------- the queue filled up
\* The same device with an environment that only locks the doors and a
\* vehicle that always answers: the queue can fill up to its capacity.
QUserCommand == Commit(EnQueue(Begin, Item("lock", FALSE, FALSE)), 1, QMaxEvents)

QLoginDone ==
  /\ firstInit
  /\ Commit(OnInitLogin([Begin EXCEPT !.firstInit = FALSE], TRUE), 0, QMaxEvents)

QExecDone ==
  \E i \in DOMAIN chains :
    /\ chains[i].pc = "exec"
    /\ Commit(FirstAttempt(Begin, i, "ok", FALSE, FALSE), 0, QMaxEvents)

QWaitDone ==
  \E i \in DOMAIN chains :
    /\ chains[i].pc = "wait"
    /\ Commit(WaitOver(Begin, i), 0, QMaxEvents)

QNext == QUserCommand \/ QLoginDone \/ QExecDone \/ QWaitDone

QSpec == Init /\ [][QNext]_vars

\* ------------------------------- the queue filled up while calls fail
\* The lock-only environment with a vehicle that may reject a call with
\* resCode 4004 and a login of the retry that may be rejected; a rejection
\* counts as one event.
FExecDone ==
  \E i \in DOMAIN chains, code \in {"ok", "4004"} :
    /\ chains[i].pc = "exec"
    /\ Commit(FirstAttempt(Begin, i, code, FALSE, FALSE),
              IF code = "ok" THEN 0 ELSE Weight("periodic"), QMaxEvents)

FBackoffDone ==
  \E i \in DOMAIN chains :
    /\ chains[i].pc = "backoff"
    /\ Commit(BackoffOver(Begin, i), 0, QMaxEvents)

FRetryLoginDone ==
  \E i \in DOMAIN chains, ok \in BOOLEAN :
    /\ chains[i].pc = "login"
    /\ Commit(RetryLogin(Begin, i, ok),
              IF ok THEN 0 ELSE Weight("periodic"), QMaxEvents)

FRetryDone ==
  \E i \in DOMAIN chains, ok \in BOOLEAN :
    /\ chains[i].pc = "retry"
    /\ Commit(SecondAttempt(Begin, i, ok, FALSE, FALSE),
              IF ok THEN 0 ELSE Weight("periodic"), QMaxEvents)

FNext ==
  \/ QUserCommand \/ QLoginDone \/ QWaitDone
  \/ FExecDone \/ FBackoffDone \/ FRetryLoginDone \/ FRetryDone

FSpec == Init /\ [][FNext]_vars

\* ------------------------------------------- the normaliser on its own
\* a poll of the device maps the payload and stores the record
DoPollStatus(raws) ==
  \E raw \in raws :
    /\ status' = raw
    /\ lastStatus' = PollRecord(raw, lastStatus)
    /\ UNCHANGED << queue, head, tail, queueRunning, busy, restarting, vehicle,
                    watchDogCounter, lastCommand, pollMode, timer, armed, disabled,
                    settings, available, chains, inits, restartTimers, order,
                    overtaken, fifo, firstInit, events, log, capability,
                    parkLocation, handled >>

PollOdometer == DoPollStatus(OdoPayloads)

PollDoors == DoPollStatus(DoorPayloads)

PollCharge == DoPollStatus(ChargePayloads)

NNext == PollOdometer \/ PollDoors \/ PollCharge

\* The normaliser alone: polls with every payload, on a device at rest.  Spec
\* and QSpec follow the queue and the scheduler and take what a poll observes
\* (carJustActive) as an input; the record a poll stores is followed here.
NSpec == Init /\ [][NNext]_vars

\* --------------------------------------- the activity classifier on its own
\* handleInfo, lines 480-516: classify the record against the capability
\* values of the previous record and the park location, then store both
HandleInfo ==
  \E info \in Infos :
    LET moving == IsMoving(info, capability)
        hasParked == IsParking(info, parkLocation)
        \* history: the record is compared with its own coordinates
        self == /\ capability = Location(info.latitude, info.longitude)
                /\ parkLocation = Location(info.latitude, info.longitude)
    IN  /\ handled' = [info |-> info, self |-> self, moving |-> moving,
                       hasParked |-> hasParked]
        /\ capability' =
             Location(SetCapability(capability.latitude, info.latitude),
                      SetCapability(capability.longitude, info.longitude))
        /\ parkLocation' =
             IF hasParked THEN Location(info.latitude, info.longitude)
             ELSE parkLocation
        /\ UNCHANGED << queue, head, tail, queueRunning, busy, restarting,
                        vehicle, watchDogCounter, lastCommand, pollMode, timer,
                        armed, disabled, settings, available, chains, inits,
                        restartTimers, order, overtaken, fifo, firstInit,
                        events, log, lastStatus, status >>

ANext == HandleInfo

\* the classifier alone: records of every kind handled one after the other
ASpec == Init /\ [][ANext]_vars

\* ================================================================ claims
\* every item enQueue is called with
AllItems ==
  UserItems \cup {Item("doPoll", FALSE, TRUE), Item("doPoll", FALSE, FALSE)}

\* C1: an enqueue on a queue that is not disabled and holds fewer than 10
\* pending commands stores the command (the number of pending commands grows
\* by exactly 1 and the command is the last pending one), and a command is
\* refused for overflow only when 10 commands are pending.
C1_StoresBelowCapacity ==
  /\ \A item \in AllItems :
       (~disabled /\ Size(St) < QueueCap) =>
         LET t == EnQueueStore(Begin, item)
         IN  /\ Size(t) = Size(St) + 1
             /\ Pending(t)[Size(t)] = item
  /\ EnQueueRefused(St) = "overflow" => Size(St) = QueueCap

\* C2: at most one runQueue invocation chain is executing a command, in its
\* retry back-off or in its post-command wait.
C2_SingleLoop == Len(chains) <= 1

\* C3: commands are executed in the order in which they were accepted: no
\* command is executed after a command that was accepted later.
C3_Fifo == fifo /\ overtaken = {}

\* C3 witness: a command is invoked from the middle of the queue, after an
\* older one was dequeued and with a younger one still pending
C3_Witness == "invoke" \in log /\ head >= 1 /\ Size(St) >= 1

\* C4: an enqueue while 10 commands are pending changes nothing (head, tail,
\* the pending commands and all other state stay as they are, no loop is
\* started) and is only logged.
C4_OverflowDropped ==
  Size(St) = QueueCap =>
    \A item \in AllItems : EnQueue(Begin, item) = Logged(Begin, "queue overflow")

\* C4 witness: a command was refused while 10 were pending
C4_Witness == "queue overflow" \in log /\ Size(St) = QueueCap

\* C5: whenever the loop is not marked running, no accepted command is left
\* pending.
C5_StoppedOnlyWhenEmpty == ~queueRunning => Size(St) = 0

\* the number of chains whose position is in the set pcs
InPc(cs, pcs) == Cardinality({i \in DOMAIN cs : cs[i].pc \in pcs})

\* C6: at no time are two restart procedures (stop timer, flush queue,
\* delay, re-init) in progress: at most one restartDevice awaits its delay or
\* has its onInit awaiting login.
C6_OneRestartAtATime == restartTimers + ReInits(St) <= 1

\* C7: when a command executes successfully, on the first attempt or on the
\* retry, the counter becomes exactly 6 whatever it was and the device is
\* marked available.
C7_SuccessResets ==
  [][ (log' \cap {"ok", "ok, counter was exhausted"} # {}) =>
        (watchDogCounter' = WatchDogStart /\ available') ]_vars

\* C7 witness: a command succeeded while the counter was at or below 0
C7_Witness == "ok, counter was exhausted" \in log /\ watchDogCounter = WatchDogStart

\* C8: a first attempt that fails without a retry code costs exactly 1 and
\* the command goes to its post-wait without a second invocation.
C8_PlainFailure ==
  [][ ("failed" \in log' /\ log' \cap {"reinvoke", "retried"} = {}) =>
        /\ watchDogCounter' = watchDogCounter - 1
        /\ InPc(chains', {"wait"}) = InPc(chains, {"wait"}) + 1
        /\ InPc(chains', {"exec"}) = InPc(chains, {"exec"}) - 1
        /\ InPc(chains', {"backoff", "login", "retry"})
             = InPc(chains, {"backoff", "login", "retry"}) ]_vars

\* C8 witness: such a failure happened
C8_Witness == "failed" \in log /\ log \cap {"reinvoke", "retried"} = {}

\* C9: a command dequeued while there is no vehicle session is not invoked
\* (no chain is created for it, so it is not retried either) and the counter
\* decreases by exactly 2.
C9_NoSession ==
  (~vehicle /\ ~disabled /\ ~queueRunning /\ tail < QueueCap) =>
    \A item \in AllItems :
      LET t == EnQueue(Begin, item)
      IN  /\ t.watchDogCounter = watchDogCounter - 2
          /\ t.chains = chains
          /\ "not logged in" \in t.log /\ "invoke" \notin t.log
          /\ Size(t) = Size(St)

\* C9 witness: a command was dequeued without a session
C9_Witness == "not logged in" \in log /\ ~vehicle

\* C10: after a first attempt that failed with a retry code the command is
\* invoked a second time when the back-off (and the optional login) is over,
\* and never a third time; a retry that succeeds sets the counter to 6, one
\* that fails costs exactly 1.
C10_RetryOnce ==
  [][ /\ InPc(chains', {"backoff", "login"}) < InPc(chains, {"backoff", "login"})
        => "reinvoke" \in log'
      /\ InPc(chains', {"retry"}) < InPc(chains, {"retry"})
        => /\ "retried" \in log'
           /\ InPc(chains', {"wait"}) = InPc(chains, {"wait"}) + 1
      /\ ("retried" \in log' /\ "failed" \notin log')
        => watchDogCounter' = WatchDogStart
      /\ (log' \cap {"reinvoke", "retried"} # {} /\ "failed" \in log')
        => watchDogCounter' = watchDogCounter - 1 ]_vars

\* C11: a timer tick that finds the counter at or below 0 invokes the restart
\* (the restart is in progress afterwards), enqueues no poll, leaves the
\* counter as it is, and is the last tick of that timer: no timer is armed
\* after it.
C11_ExhaustedTick ==
  [][ "watchdog triggered" \in log' =>
        /\ restarting'
        /\ watchDogCounter' = watchDogCounter
        /\ tail' = 0 /\ chains' = chains
        /\ timer' = "none" ]_vars

\* the commands the device holds: pending in the queue or being executed
Held(s) == Size(s) + Len(s.chains)

\* the command the device took in last: the last pending one, or the one
\* of the newest runQueue invocation when nothing is pending
Newest(s) ==
  IF Size(s) > 0 THEN Pending(s)[Size(s)]
  ELSE IF Len(s.chains) > 0 THEN s.chains[Len(s.chains)].item
  ELSE NoItem

\* C12: on a device whose live link is not disabled, a timer tick that finds
\* the counter above 0 and the consumer busy enqueues nothing, leaves the
\* queue as it is and costs exactly 1; one that finds the consumer not busy
\* enqueues exactly one poll with forceOnce = false and leaves the counter
\* as it is.
C12_Tick ==
  (~disabled /\ timer # "none" /\ watchDogCounter > 0) =>
    LET t == TimerTick(Begin)
    IN  IF busy
        THEN /\ t.queue = queue /\ t.head = head /\ t.tail = tail
             /\ t.chains = chains
             /\ t.watchDogCounter = watchDogCounter - 1
        ELSE /\ Held(t) = Held(St) + 1
             /\ Newest(t).command = "doPoll" /\ ~Newest(t).forceOnce
             /\ t.watchDogCounter = watchDogCounter

\* C13: when the loop finds the queue empty and the last executed command
\* was neither a poll nor the stop-charge the cooldown test looks at, exactly
\* one poll (forceOnce = true) is enqueued and taken by the loop at once:
\* invoked, or dropped for the absent session; when the last executed command
\* was a poll nothing is enqueued and the loop goes idle.
C13_AutoPoll ==
  [][ "Finished queue" \in log' =>
        /\ lastCommand \notin {"doPoll", "stopCharge"} =>
             /\ log' \cap {"invoke", "not logged in"} # {}
             /\ tail' = 0
             /\ "invoke" \in log' =>
                  /\ Len(chains') = Len(chains)
                  /\ chains'[Len(chains')] =
                       [pc |-> "exec", item |-> Item("doPoll", TRUE, FALSE)]
             /\ "not logged in" \in log' =>
                  /\ Len(chains') = Len(chains) - 1
                  /\ watchDogCounter' = watchDogCounter - NoSessionPenalty
        /\ lastCommand = "doPoll" =>
             /\ log' = {"Finished queue"}
             /\ tail' = 0 /\ Len(chains') = Len(chains) - 1
             /\ ~queueRunning' /\ ~busy'
             /\ watchDogCounter' = watchDogCounter ]_vars

\* C13 witness: the loop found the queue empty after a lock and invoked the
\* poll it enqueued
C13_Witness ==
  /\ {"Finished queue", "invoke"} \subseteq log
  /\ lastCommand = "doPoll" /\ Size(St) = 0

\* C14: every executed command that is not a poll is followed by a poll
\* before the loop goes idle: whenever no runQueue invocation is left and the
\* loop is not marked running, the last command invoked is a poll (or nothing
\* was invoked yet).
C14_ConfirmationPoll ==
  (~queueRunning /\ chains = << >>) => lastCommand \in {"undefined", "doPoll"}

\* C15: at the moment onInit re-runs after the delay of a restart, no
\* command is pending in the queue and no polling timer is armed.
C15_RestartClean ==
  [][ restartTimers' < restartTimers =>
        (Size(St) = 0 /\ timer = "none") ]_vars

\* the interval startPolling is called with for a poll mode
IntervalOf(mode) == IF mode = 0 THEN "pollInterval" ELSE "pollIntervalEngineOn"

\* C16 as stated: after a completed poll that observed car-just-active the
\* mode is active, after one that observed it false the mode is normal, and a
\* change of mode at a completed poll re-arms the timer with the interval of
\* the new mode.
C16_ModeFollows ==
  [][ /\ "car just active" \in log' => pollMode' = 1
      /\ "car not active" \in log' => pollMode' = 0
      /\ (log' \cap {"car just active", "car not active"} # {}
            /\ pollMode' # pollMode) =>
           ("Start polling" \in log' /\ timer' = IntervalOf(pollMode')) ]_vars

\* C16 amended: the mode becomes active only when an engine-on interval is
\* configured (settings.pollIntervalEngineOn); without it a poll that observes
\* car-just-active leaves the mode as it is.  The rest is as stated.
C16_ModeFollowsIfConfigured ==
  [][ /\ {"car just active", "engineOn interval set"} \subseteq log'
           => pollMode' = 1
      /\ {"car just active", "no engineOn interval"} \subseteq log'
           => (pollMode' = pollMode /\ timer' = timer)
      /\ "car not active" \in log' => pollMode' = 0
      /\ (log' \cap {"car just active", "car not active"} # {}
            /\ pollMode' # pollMode) =>
           ("Start polling" \in log' /\ timer' = IntervalOf(pollMode')) ]_vars

\* C16 witness: a poll observed car-just-active and switched the mode
C16_Witness ==
  /\ {"car just active", "Start polling"} \subseteq log
  /\ pollMode = 1 /\ timer = "pollIntervalEngineOn"

\* the command the device took in last, in the state a step leaves
NewestNext ==
  IF tail' - head' > 0 THEN queue'[tail' - 1]
  ELSE IF Len(chains') > 0 THEN chains'[Len(chains')].item
  ELSE NoItem

\* the first polls (logPoll = true) the device holds
FirstPolls(q, h, tl, cs) ==
  Cardinality({i \in h .. (tl - 1) : q[i] = Item("doPoll", FALSE, TRUE)})
    + Cardinality({i \in DOMAIN cs : cs[i].item = Item("doPoll", FALSE, TRUE)})

\* a step in which startPolling ran and its enqueue was neither refused nor
\* dropped for the absent session
PollStarted ==
  /\ "Start polling" \in log'
  /\ log' \cap {"ignoring command", "queue overflow", "not logged in"} = {}

C18_OdometerRepaired ==
  [][ (status' # status \/ lastStatus' # lastStatus) =>
        ((lastStatus.measure_odo.t = "number"
            /\ Falsy(MapStatus(status').measure_odo))
           => lastStatus'.measure_odo = lastStatus.measure_odo) ]_vars

\* C19: closed_locked of the record of a poll is true only if the payload
\* reports the lock engaged and every door, the trunk and the hood closed
\* (and, in the current schema, the windows and the sunroof closed): a payload
\* with a door open never gives closed_locked, in any schema.
C19_ClosedLocked ==
  (status.schema # "none" /\ lastStatus.closed_locked) =>
    /\ status.locked
    /\ \A d \in Doors : status.doorOpen[d] = 0
    /\ status.trunkOpen = 0 /\ status.hoodOpen = 0
    /\ status.schema = "current" =>
         (status.windowOpen = 0 /\ status.sunroofOpen = 0)

\* C20 as stated: connector codes 1 and 2 give charging with the charging flag
\* and idle without it, code 0 gives unplugged, codes 3 and 4 give idle and
\* anything else unplugged, in every schema.
C20_ChargeTable ==
  status.schema # "none" =>
    lastStatus.ev_charging_state =
      (IF status.plugin \in {1, 2}
       THEN (IF status.charge THEN "plugged_in_charging" ELSE "plugged_in")
       ELSE IF status.plugin \in {3, 4} THEN "plugged_in"
       ELSE "plugged_out")

\* C20 amended: as stated for the codes 0, 1 and 2; codes 3 and 4 give idle
\* only with the charging flag, and unplugged without it (they are recoded to
\* 5 and 6); anything else gives unplugged; the legacy path and the
\* current-schema path give the same phase for the same pair.
C20_ChargeTableRecoded ==
  status.schema # "none" =>
    /\ lastStatus.ev_charging_state =
         (IF status.plugin \in {1, 2}
          THEN (IF status.charge THEN "plugged_in_charging" ELSE "plugged_in")
          ELSE IF status.plugin \in {3, 4} /\ status.charge THEN "plugged_in"
          ELSE "plugged_out")
    /\ LegacyChargingState(status.plugin, status.charge)
         = CurrentChargingState(status.plugin, status.charge)

\* C20 witness: a poll in the current schema decoded connector code 3 without
\* the charging flag
C20_Witness ==
  /\ status.schema = "current" /\ status.plugin = 3 /\ ~status.charge
  /\ lastStatus.ev_charging_state = "plugged_out"

\* the distance of two coordinates, both present
Apart(a, b) == IF a.v >= b.v THEN a.v - b.v ELSE b.v - a.v

\* C21: isMoving is false if there are no previous coordinates (the previous
\* latitude is absent or 0) or the speed is absent; in every other case, a
\* speed of exactly 0 included, it is true exactly when the speed is above 0
\* or the latitude or the longitude is more than 0.0001 degree away from the
\* previous one.
C21_IsMoving ==
  [][ LET info == handled'.info
      IN  handled'.moving =
            IF Falsy(capability.latitude) \/ info.measure_speed.t = "undefined"
            THEN FALSE
            ELSE \/ info.measure_speed.v > 0
                 \/ /\ info.latitude.t = "number"
                    /\ Apart(info.latitude, capability.latitude) > 1
                 \/ /\ info.longitude.t = "number"
                    /\ capability.longitude.t = "number"
                    /\ Apart(info.longitude, capability.longitude) > 1 ]_vars

\* C22: isMoving is false whenever the previous coordinates are {0, 0},
\* whatever the speed and the position of the record.
C22_NoMoveFromZero ==
  [][ capability = Location(Num(0), Num(0)) => ~handled'.moving ]_vars

\* C22 witness: a record with a positive speed and no position was handled
\* with the previous coordinates {0, 0} and found not moving
C22_Witness ==
  /\ capability = Location(Num(0), Num(0))
  /\ handled.info.latitude = Undefined /\ handled.info.measure_speed = Num(1)
  /\ ~handled.moving

\* C23: isParking is false whenever the engine is ready; with the engine not
\* ready it is true exactly when the latitude or the longitude is more than
\* 0.0003 degree away from the park location.
C23_IsParking ==
  [][ LET info == handled'.info
      IN  handled'.hasParked =
            /\ ~info.engine
            /\ info.latitude.t = "number"
            /\ \/ Apart(info.latitude, parkLocation.latitude) > 3
               \/ Apart(info.longitude, parkLocation.longitude) > 3 ]_vars

\* C23 witness: a record with the engine off was found parked, more than
\* 0.0003 degree north of the origin, and became the park location
C23_Witness ==
  /\ handled.hasParked /\ ~handled.info.engine
  /\ handled.info.latitude = Num(4)
  /\ parkLocation = Location(handled.info.latitude, handled.info.longitude)

\* C24 as stated: a record classified with itself as the previous state
\* (previous coordinates and park location equal to its own coordinates) is
\* found neither moving nor parked.
C24_NoSelfTransition ==
  handled.self => (~handled.moving /\ ~handled.hasParked)

\* C24 amended: such a record is never found parked, and it is found moving
\* exactly when its speed is above 0 and its latitude is not 0.
C24_SelfMovesBySpeed ==
  handled.self =>
    /\ ~handled.hasParked
    /\ handled.moving =
         (/\ handled.info.measure_speed.t = "number"
          /\ handled.info.measure_speed.v > 0
          /\ handled.info.latitude.t = "number"
          /\ handled.info.latitude.v # 0)

\* C24 witness: a record with a positive speed was classified with itself as
\* the previous state and found moving
C24_Witness ==
  /\ handled.self /\ handled.moving /\ ~handled.hasParked
  /\ handled.info.measure_speed = Num(1)

\* C25: the queue indices always satisfy 0 <= head <= tail <= 10, and when
\* head equals tail both are 0.
C25_Indices ==
  /\ 0 <= head /\ head <= tail /\ tail <= 10
  /\ head = tail => (head = 0 /\ tail = 0)

\* C25 witness: the queue is filled to its last slot and the loop has taken
\* commands from it
C25_Witness == head > 0 /\ tail = 10 /\ queueRunning

\* the commands whose execution has ended and whose post-wait is running
Waiting == {i \in DOMAIN chains : chains[i].pc = "wait"}

\* C26: after a command's execution has ended, the next item is not dequeued
\* until that command's post-wait is over: 65 s for start and setNavigation,
\* 25 s for startCharge and setChargeTargets, 5 s for the other commands.
\* A step that takes an item from the queue while a post-wait is running is
\* the step in which that post-wait, and no other, ends.
C26_PostWait ==
  [][ LET PostWait(c) ==
            IF c \in {"start", "setNavigation"} THEN 65
            ELSE IF c \in {"startCharge", "setChargeTargets"} THEN 25
            ELSE 5
      IN  /\ \A i \in Waiting :
               ItemWait(chains[i].item.command) = PostWait(chains[i].item.command)
          /\ (Waiting # {} /\ log' \cap {"invoke", "not logged in"} # {})
               => (/\ Cardinality(Waiting) = 1
                   /\ \E i \in Waiting :
                        DropChain(St, i).chains
                          = SubSeq(chains', 1, Len(chains) - 1)) ]_vars

\* C27: at most one polling timer is armed at any time; startPolling cancels
\* the timer armed before and leaves exactly one armed; stopPolling leaves
\* none armed, and calling it again changes nothing.
C27_OneTimer ==
  /\ armed <= 1
  /\ \A interval \in {"pollInterval", "pollIntervalEngineOn"} :
       /\ StartPolling(Begin, interval).armed = 1
       /\ StartPolling(Begin, interval).timer = interval
  /\ StopPolling(Begin).armed = 0 /\ StopPolling(Begin).timer = "none"
  /\ StopPolling(StopPolling(Begin)) = StopPolling(Begin)

\* C27 witness: startPolling has just run while a timer was armed, after the
\* poll mode had returned to normal, and one timer is armed
C27_Witness ==
  /\ "Start polling" \in log /\ "car not active" \in log
  /\ armed = 1 /\ timer = "pollInterval"

\* C28: an exception raised inside one iteration of the loop (the error
\* thrown for the absent session, a rejected login of the retry) leaves the
\* running flag and the busy flag false and is only logged: the handler that
\* had called enQueue goes on, a poll that re-armed the timer still resolves.
C28_ExceptionContained ==
  [][ (log' \cap {"not logged in", "retry login failed"} # {})
        => /\ ~queueRunning' /\ ~busy'
           /\ (log' \cap {"car just active", "car not active"} # {})
                => (log' \cap {"ok", "ok, counter was exhausted", "retried"} # {}) ]_vars

\* C28 witness: the login of a retry was rejected with commands pending, and
\* both flags are false
C28_Witness ==
  /\ "retry login failed" \in log /\ Size(St) > 0
  /\ ~queueRunning /\ ~busy

\* the loop has stopped: no runQueue invocation is suspended, nothing is
\* pending, and the running flag and the busy flag are false
LoopIdle == chains = << >> /\ Size(St) = 0 /\ ~queueRunning /\ ~busy

\* C29: the loop terminates.  Once nothing outside the loop enqueues any more
\* and every call settles, the loop stops for good with the queue empty and
\* both flags false.
C29_Terminates == <>[]LoopIdle

C31_NotStranded ==
  (Size(St) > 0 /\ ~queueRunning /\ ~disabled) =>
    /\ \A item \in UserItems :
         EnQueue(Begin, item).log \cap {"invoke", "not logged in"} # {}
    /\ (timer # "none" /\ watchDogCounter > 0 /\ ~busy) =>
         TimerTick(Begin).log \cap {"invoke", "not logged in"} # {}

\* n ticks of the timer in a row, with nothing else happening in between
RECURSIVE Ticks(_, _)
Ticks(s, n) ==
  IF n = 0 THEN s ELSE TimerTick([Ticks(s, n - 1) EXCEPT !.log = {}])

\* C32: while a command does not complete and busy stays true, each tick of
\* the timer lowers the counter by 1 and changes nothing else, and the first
\* tick that sees the counter at 0 (the seventh in a row when the counter was
\* 6) invokes the restart: unless a restart is pending already, the timer is
\* cancelled, the queue is flushed and the device is marked restarting.
C32_Watchdog ==
  /\ [][ "skipping a poll" \in log'
           => /\ busy /\ busy' /\ watchDogCounter > 0
              /\ watchDogCounter' = watchDogCounter - 1
              /\ UNCHANGED << queue, head, tail, queueRunning, chains, timer,
                              restarting >> ]_vars
  /\ []( (busy /\ timer # "none" /\ watchDogCounter \in 1 .. 6)
           => /\ \A k \in 1 .. watchDogCounter :
                   Ticks(Begin, k)
                     = Logged([Begin EXCEPT !.watchDogCounter = @ - k],
                              "skipping a poll")
              /\ LET t == Ticks(Begin, watchDogCounter + 1)
                 IN  /\ "watchdog triggered" \in t.log
                     /\ t.restarting
                     /\ ~restarting =>
                          (/\ t.timer = "none" /\ t.armed = 0
                           /\ Size(t) = 0 /\ ~t.queueRunning
                           /\ t.restartTimers = restartTimers + 1) )

\* C32 witness: the first poll has not completed, a tick has found the
\* counter at 0 with busy true and has invoked the restart
C32_Witness ==
  /\ "watchdog triggered" \in log /\ watchDogCounter = 0
  /\ busy /\ chains = << [pc |-> "exec", item |-> Item("doPoll", FALSE, TRUE)] >>
  /\ restarting /\ restartTimers = 1 /\ timer = "none"

\* C33: while a restart is pending (restartDevice has flushed the queue and
\* awaits its delay) no new command execution starts: no command is taken
\* from the queue and invoked on the vehicle client.
C33_QuietRestart ==
  [][ (restarting /\ restartTimers > 0) => "invoke" \notin log' ]_vars

\* C34: whenever a polling timer is armed, its interval is the one configured
\* for the current poll mode: the base interval in normal mode, the engineOn
\* interval in active mode.
C34_IntervalOfMode == timer # "none" => timer = IntervalOf(pollMode)

====
